---- MODULE Spec2Model ----
(***************************************************************************)
(* Model of model_seirx.py (idcovid19): the SEIR-like compartment models   *)
(* Model and Model2, their rate matrix, the observables read from the      *)
(* dominant eigenmode, the pyro inference function and the posterior       *)
(* post-processing (sample_observations, filter_samples).                  *)
(*                                                                         *)
(* Numbers.  torch / numpy floats are modelled by exact rationals          *)
(* <<n, d>> in lowest terms with d > 0; the three non-finite floats are    *)
(* <<1, 0>> (inf), <<-1, 0>> (-inf) and <<0, 0>> (nan).  Rounding is not   *)
(* modelled.                                                               *)
(***************************************************************************)
EXTENDS Integers, Sequences, FiniteSets, TLC

VARIABLES
    variant,      \* class of the object: "Model" or "Model2"
    prior,        \* self.prior: name -> Uniform(low, high)
    vecnames,     \* self.vecnames: compartment name -> index
    obsnames,     \* self.obsnames
    paramnames,   \* self.paramnames
    nparams,      \* self.nparams
    nobs,         \* self.nobs
    obs,          \* self.obs: ((mean, std), (mean, std), (mean, std))
    eigsign,      \* sign convention of the eigensolver (fixed, unknown)
    eigtie,       \* order convention of the eigensolver among equal eigenvalues
    samples,      \* the posterior sample set held by the driver
    pc,           \* "idle" or "returned"
    call,         \* the last call: its name and arguments
    ret,          \* the last call's result
    log           \* the sites the last inference call reported to pyro

vars == <<variant, prior, vecnames, obsnames, paramnames, nparams, nobs, obs,
          eigsign, eigtie, samples, pc, call, ret, log>>

attrs == <<variant, prior, vecnames, obsnames, paramnames, nparams, nobs, obs>>

-----------------------------------------------------------------------------
(* Rational arithmetic with the IEEE non-finite values.                    *)

Abs(n) == IF n < 0 THEN -n ELSE n

Sgn(n) == IF n > 0 THEN 1 ELSE IF n < 0 THEN -1 ELSE 0

RECURSIVE Gcd(_, _)
Gcd(a, b) == IF b = 0 THEN a ELSE Gcd(b, a % b)

Rat(n, d) ==
    IF d = 0 THEN <<Sgn(n), 0>>
    ELSE LET g == Gcd(Abs(n), Abs(d))
         IN  <<Sgn(d) * (n \div g), Abs(d) \div g>>

Zero == <<0, 1>>
One == <<1, 1>>
NaN == <<0, 0>>
Inf == <<1, 0>>

IsFinite(x) == x[2] # 0
IsNaN(x) == x = NaN

\* a minus sign left out
Neg_dropped(x) == x

Neg(x) == <<-x[1], x[2]>>

Add(x, y) ==
    IF IsFinite(x) /\ IsFinite(y) THEN Rat(x[1] * y[2] + y[1] * x[2], x[2] * y[2])
    ELSE IF IsNaN(x) \/ IsNaN(y) THEN NaN
    ELSE IF IsFinite(x) THEN y
    ELSE IF IsFinite(y) THEN x
    ELSE IF x = y THEN x ELSE NaN

Sub(x, y) == Add(x, Neg(y))

Mul(x, y) ==
    IF IsFinite(x) /\ IsFinite(y) THEN Rat(x[1] * y[1], x[2] * y[2])
    ELSE IF IsNaN(x) \/ IsNaN(y) THEN NaN
    ELSE <<Sgn(x[1]) * Sgn(y[1]), 0>>

Div(x, y) ==
    IF IsFinite(x) /\ IsFinite(y) THEN Rat(x[1] * y[2], x[2] * y[1])
    ELSE IF IsNaN(x) \/ IsNaN(y) THEN NaN
    ELSE IF IsFinite(y) THEN <<Sgn(x[1]) * (IF y[1] < 0 THEN -1 ELSE 1), 0>>
    ELSE IF IsFinite(x) THEN Zero
    ELSE NaN

\* x < y and x <= y as floats compare: false when either side is nan
Lt(x, y) ==
    /\ ~IsNaN(x) /\ ~IsNaN(y)
    /\ IF IsFinite(x) /\ IsFinite(y) THEN x[1] * y[2] < y[1] * x[2]
       ELSE IF IsFinite(x) THEN y = Inf
       ELSE IF IsFinite(y) THEN x = Neg(Inf)
       ELSE x = Neg(Inf) /\ y = Inf

Le(x, y) == ~IsNaN(x) /\ ~IsNaN(y) /\ (x = y \/ Lt(x, y))

\* f itself, as a table: TLC evaluates [x \in S |-> e] anew at every application
Tab(f) == f @@ <<>>

\* torch.sign
Sign(x) == IF IsNaN(x) THEN NaN ELSE <<Sgn(x[1]), 1>>

-----------------------------------------------------------------------------
(* Construction: Model.__init__ and Model2.__init__.                       *)

Uniform(low, high) == [dist |-> "Uniform", low |-> low, high |-> high]
Normal(loc, scale) == [dist |-> "Normal", loc |-> loc, scale |-> scale]

\* a dict is the sequence of its items <<key, value>>, in insertion order
keys(d) == [k \in 1..Len(d) |-> d[k][1]]

ModelPrior ==
    <<<<"t_incub", Uniform(<<1, 10>>, <<30, 1>>)>>,
      <<"inf_rate", Uniform(<<1, 100>>, <<1, 1>>)>>,
      <<"surv_rate", Uniform(<<1, 100>>, <<1, 1>>)>>,
      <<"t_dec", Uniform(<<1, 10>>, <<30, 1>>)>>,
      <<"t_rec", Uniform(<<1, 10>>, <<30, 1>>)>>>>

ModelVecnames ==
    [exposed |-> 0, infectious_dec |-> 1, infectious_rec |-> 2, dec |-> 3, rec |-> 4]

Model2Prior ==
    <<<<"t_incub", Uniform(<<1, 10>>, <<30, 1>>)>>,
      <<"inf_rate_unconf", Uniform(<<1, 100>>, <<1, 1>>)>>,
      <<"inf_rate_conf", Uniform(<<1, 100>>, <<1, 1>>)>>,
      <<"surv_rate", Uniform(<<1, 100>>, <<1, 1>>)>>,
      <<"t_conf", Uniform(<<1, 10>>, <<30, 1>>)>>,
      <<"t_dec_conf", Uniform(<<1, 10>>, <<30, 1>>)>>,
      <<"t_rec_conf", Uniform(<<1, 10>>, <<30, 1>>)>>,
      <<"t_dec_unconf", Uniform(<<1, 10>>, <<30, 1>>)>>,
      <<"t_rec_unconf", Uniform(<<1, 10>>, <<30, 1>>)>>>>

Model2Vecnames ==
    [exposed |-> 0, infectious_dec_unconf |-> 1, infectious_rec_unconf |-> 2,
     infectious_dec_conf |-> 3, infectious_rec_conf |-> 4, dec_conf |-> 5,
     rec_conf |-> 6]

Obsnames == <<"gradient", "dec_by_rec", "dec_by_infection">>

-----------------------------------------------------------------------------
(* Model specification: unpack and construct_jac.                          *)

unpack(params) == Tab([k \in 1..Len(paramnames) |-> params[paramnames[k]]])

zeros(n, m) == Tab([i \in 0..(n - 1) |-> Tab([j \in 0..(m - 1) |-> Zero])])

\* source and target index taken for one another
Put_transposed(K, i, j, v) == [K EXCEPT ![j][i] = v]

\* K_rate[i,j] = v
Put(K, i, j, v) == [K EXCEPT ![i][j] = v]

Model_construct_jac(params) ==
    LET p == unpack(params)
        t_incub == p[1]
        inf_rate == p[2]
        surv_rate == p[3]
        t_dec == p[4]
        t_rec == p[5]
        K0 == zeros(nparams, nparams)
        K1 == Put(K0, 0, 0, Div(Neg(One), t_incub))
        K2 == Put(K1, 0, 1, inf_rate)
        K3 == Put(K2, 0, 2, inf_rate)
        K4 == Put(K3, 1, 0, Div(Sub(One, surv_rate), t_incub))
        K5 == Put(K4, 1, 1, Div(Neg(One), t_dec))
        K6 == Put(K5, 2, 0, Div(surv_rate, t_incub))
        K7 == Put(K6, 2, 2, Div(Neg(One), t_rec))
        K8 == Put(K7, 3, 1, Div(One, t_dec))
        K9 == Put(K8, 4, 2, Div(One, t_rec))
    IN  K9

Model2_construct_jac(params) ==
    LET p == unpack(params)
        t_incub == p[1]
        inf_rate_unconf == p[2]
        inf_rate_conf == p[3]
        surv_rate == p[4]
        t_conf == p[5]
        t_dec_conf == p[6]
        t_rec_conf == p[7]
        t_dec_unconf == p[8]
        t_rec_unconf == p[9]
        K0 == zeros(nparams, nparams)
        K1 == Put(K0, 0, 0, Div(Neg(One), t_incub))
        K2 == Put(K1, 0, 1, inf_rate_unconf)
        K3 == Put(K2, 0, 2, inf_rate_unconf)
        K4 == Put(K3, 0, 3, inf_rate_conf)
        K5 == Put(K4, 0, 4, inf_rate_conf)
        K6 == Put(K5, 1, 0, Div(Sub(One, surv_rate), t_incub))
        K7 == Put(K6, 1, 1, Sub(Div(Neg(One), t_dec_unconf), Div(One, t_conf)))
        K8 == Put(K7, 2, 0, Div(surv_rate, t_incub))
        K9 == Put(K8, 2, 2, Sub(Div(Neg(One), t_rec_unconf), Div(One, t_conf)))
        K10 == Put(K9, 3, 1, Div(One, t_conf))
        K11 == Put(K10, 3, 3, Div(Neg(One), t_dec_conf))
        K12 == Put(K11, 4, 2, Div(One, t_conf))
        K13 == Put(K12, 4, 4, Div(Neg(One), t_rec_conf))
        K14 == Put(K13, 5, 3, Div(One, t_dec_conf))
        K15 == Put(K14, 6, 4, Div(One, t_rec_conf))
    IN  K15

construct_jac(params) ==
    IF variant = "Model" THEN Model_construct_jac(params)
    ELSE Model2_construct_jac(params)

-----------------------------------------------------------------------------
(* utils.eig.eig: the eigendecomposition.  Its source is not part of the   *)
(* sources at hand; it is modelled from its contract: eigenvalues in       *)
(* ascending order, column k of eigvecs an eigenvector of eigenvalue k.    *)
(* The eigenvalues are searched in EigGrid; the decomposition is complete  *)
(* when it finds as many eigenpairs as the matrix has rows (EigComplete).  *)
(* A unit eigenvector has irrational entries in general, so a column is    *)
(* kept as the integer vector of its direction, in the orientation the     *)
(* solver convention eigsign gives it; among equal eigenvalues the columns *)
(* come in the order the convention eigtie gives them.                     *)

EigGrid == {Rat(k, 8) : k \in -8..2}

Lcm(a, b) == (a * b) \div Gcd(a, b)

Dim(M) == Cardinality(DOMAIN M)

RECURSIVE RowGcd(_, _)
\* gcd of the entries 0..j of an integer row
RowGcd(row, j) == IF j < 0 THEN 0 ELSE Gcd(Abs(row[j]), RowGcd(row, j - 1))

RECURSIVE RowDen(_, _)
\* lcm of the denominators of the entries 0..j of a row of rationals
RowDen(row, j) == IF j < 0 THEN 1 ELSE Lcm(row[j][2], RowDen(row, j - 1))

RECURSIVE MatDen(_, _)
MatDen(M, i) == IF i < 0 THEN 1 ELSE Lcm(RowDen(M[i], Dim(M) - 1), MatDen(M, i - 1))

DivRow(row, g) == IF g <= 1 THEN row ELSE Tab([j \in DOMAIN row |-> row[j] \div g])

NormRow(row) == DivRow(row, RowGcd(row, Cardinality(DOMAIN row) - 1))

ShiftedBy(M, lam, D) ==
    Tab([i \in DOMAIN M |->
        NormRow(Tab([j \in DOMAIN M |->
            lam[2] * M[i][j][1] * (D \div M[i][j][2])
                - (IF i = j THEN lam[1] * D ELSE 0)]))])

\* the rows of D*q*(M - (p/q) I), D the common denominator of M: integer rows
Shifted(M, lam) == ShiftedBy(M, lam, MatDen(M, Dim(M) - 1))

MinOf(S) == IF S = {} THEN -1 ELSE CHOOSE i \in S : \A k \in S : i <= k

FirstPivot(R, j, r) == MinOf({i \in DOMAIN R : i >= r /\ R[i][j] # 0})

Swap(R, r, i) == [R EXCEPT ![r] = R[i], ![i] = R[r]]

Eliminate(S, r, j) ==
    Tab([k \in DOMAIN S |->
        IF k = r \/ S[k][j] = 0 THEN S[k]
        ELSE NormRow(Tab([c \in DOMAIN S |-> S[r][j] * S[k][c] - S[k][j] * S[r][c]]))])

RECURSIVE Reduce(_, _, _, _)
RECURSIVE ReduceAt(_, _, _, _, _)
\* Gauss-Jordan elimination on integer rows; piv lists the pivot columns,
\* the k-th pivot standing in row k - 1
Reduce(R, j, r, piv) ==
    IF j = Dim(R) THEN [R |-> R, piv |-> piv]
    ELSE ReduceAt(R, j, r, piv, FirstPivot(R, j, r))

ReduceAt(R, j, r, piv, i) ==
    IF i = -1 THEN Reduce(R, j + 1, r, piv)
    ELSE Reduce(Eliminate(Swap(R, r, i), r, j), j + 1, r + 1, Append(piv, j))

RECURSIVE PivLcm(_, _)
PivLcm(red, k) ==
    IF k = 0 THEN 1 ELSE Lcm(Abs(red.R[k - 1][red.piv[k]]), PivLcm(red, k - 1))

PivRow(red, c) == MinOf({k \in 1..Len(red.piv) : red.piv[k] = c})

NullEntry(red, f, P, c, k) ==
    IF c = f THEN P
    ELSE IF k = -1 THEN 0
    ELSE -(red.R[k - 1][f] * (P \div red.R[k - 1][c]))

NullVectorBy(red, f, P) ==
    NormRow(Tab([c \in DOMAIN red.R |-> NullEntry(red, f, P, c, PivRow(red, c))]))

\* the null vector of the reduced matrix that belongs to the free column f
NullVector(red, f) == NullVectorBy(red, f, PivLcm(red, Len(red.piv)))

RECURSIVE SetToSeq(_)
\* the elements of a set of integers, ascending
SetToSeq(S) == IF S = {} THEN <<>> ELSE <<MinOf(S)>> \o SetToSeq(S \ {MinOf(S)})

Reverse(s) == Tab([k \in 1..Len(s) |-> s[Len(s) + 1 - k]])

FreeCols(red) == SetToSeq({c \in DOMAIN red.R : PivRow(red, c) = -1})

Oriented(v) == Tab([c \in DOMAIN v |-> <<eigsign * v[c], 1>>])

EigSpaceOf(lam, red, free) ==
    Tab([k \in 1..Len(free) |->
        [val |-> lam, vec |-> Oriented(NullVector(red, free[k]))]])

Ordered(pairs) == IF eigtie = "rev" THEN Reverse(pairs) ELSE pairs

EigSpaceIn(lam, red) == Ordered(EigSpaceOf(lam, red, FreeCols(red)))

\* the eigenvectors found for the eigenvalue lam, as eigenpairs
EigSpace(M, lam) == EigSpaceIn(lam, Reduce(Shifted(M, lam), 0, 0, <<>>))

\* the eigenvalues of M in EigGrid: the lam for which M - lam I is singular
Spectrum(M) ==
    {lam \in EigGrid : Len(Reduce(Shifted(M, lam), 0, 0, <<>>).piv) < Dim(M)}

MinRat(G) == CHOOSE x \in G : \A y \in G : Le(x, y)

RECURSIVE EigPairs(_, _)
\* the eigenpairs of M with eigenvalue in G, ascending by eigenvalue
EigPairs(M, G) ==
    IF G = {} THEN <<>>
    ELSE EigSpace(M, MinRat(G)) \o EigPairs(M, G \ {MinRat(G)})

EigTable(M, pairs) ==
    [eigvals |-> Tab([k \in 0..(Len(pairs) - 1) |-> pairs[k + 1].val]),
     eigvecs |-> Tab([i \in DOMAIN M |->
                     Tab([k \in 0..(Len(pairs) - 1) |-> pairs[k + 1].vec[i]])])]

eig(M) == EigTable(M, EigPairs(M, Spectrum(M)))

EigComplete(M) == Cardinality(DOMAIN eig(M).eigvals) = Dim(M)

-----------------------------------------------------------------------------
(* Observation specification: get_simobservable.                           *)

Last(f) == Cardinality(DOMAIN f) - 1

\* max_eigvecs = eigvecs[:,-1] * torch.sign(eigvecs[-1,-1])
max_eigvecs_of(eigvecs) ==
    Tab([i \in DOMAIN eigvecs |->
        Mul(eigvecs[i][Last(eigvecs[i])],
            Sign(eigvecs[Last(eigvecs)][Last(eigvecs[Last(eigvecs)])]))])

\* the smallest eigenvalue read in place of the largest
Model_observable_first(eigvals, max_eigvecs) ==
    <<eigvals[0],
      Div(max_eigvecs[vecnames["dec"]], max_eigvecs[vecnames["rec"]]),
      Div(max_eigvecs[vecnames["dec"]],
          Add(max_eigvecs[vecnames["infectious_rec"]],
              max_eigvecs[vecnames["infectious_dec"]]))>>

\* the observables of Model, from eigvals and max_eigvecs
Model_observable(eigvals, max_eigvecs) ==
    <<eigvals[Last(eigvals)],
      Div(max_eigvecs[vecnames["dec"]], max_eigvecs[vecnames["rec"]]),
      Div(max_eigvecs[vecnames["dec"]],
          Add(max_eigvecs[vecnames["infectious_rec"]],
              max_eigvecs[vecnames["infectious_dec"]]))>>

Model_simobservable_of(e) == Model_observable(e.eigvals, max_eigvecs_of(e.eigvecs))

Model_get_simobservable(params) == Model_simobservable_of(eig(construct_jac(params)))

\* the observables of Model2, from eigvals and max_eigvecs
Model2_observable(eigvals, max_eigvecs) ==
    <<eigvals[Last(eigvals)],
      Div(max_eigvecs[vecnames["dec_conf"]], max_eigvecs[vecnames["rec_conf"]]),
      Div(max_eigvecs[vecnames["dec_conf"]],
          Add(max_eigvecs[vecnames["infectious_dec_conf"]],
              max_eigvecs[vecnames["infectious_rec_conf"]]))>>

Model2_simobservable_of(e) == Model2_observable(e.eigvals, max_eigvecs_of(e.eigvecs))

Model2_get_simobservable(params) == Model2_simobservable_of(eig(construct_jac(params)))

get_simobservable(params) ==
    IF variant = "Model" THEN Model_get_simobservable(params)
    ELSE Model2_get_simobservable(params)

-----------------------------------------------------------------------------
(* Util functions: prior_params and inference.  The values pyro.sample     *)
(* returns for the prior sites are the input draw (name -> value).         *)

Site(name, fn, value, observed) ==
    [type |-> "sample", name |-> name, fn |-> fn, value |-> value,
     is_observed |-> observed]

Returned(v) == [exc |-> "", value |-> v]
Raised(e) == [exc |-> e, value |-> <<>>]

\* the sites pyro records while prior_params runs, in the order of self.prior.items()
prior_sites(draw) ==
    Tab([k \in 1..Len(prior) |-> Site(prior[k][1], prior[k][2], draw[prior[k][1]], FALSE)])

prior_params(draw) == [name \in {prior[k][1] : k \in 1..Len(prior)} |-> draw[name]]

\* the empirical mean and the empirical std taken for one another
observe_sites_swapped(simobs, o) ==
    Tab([i \in 1..nobs |-> Site(obsnames[i], Normal(simobs[i], o[i][1]), o[i][2], TRUE)])

\* for i in range(self.nobs): pyro.sample(obsnames[i], Normal(simobs[i], obs[i][1]), obs=obs[i][0])
observe_sites(simobs, o) ==
    Tab([i \in 1..nobs |-> Site(obsnames[i], Normal(simobs[i], o[i][2]), o[i][1], TRUE)])

\* what pyro has recorded when inference returns, simobs being the value of
\* self.get_simobservable(params)
inference_sites(draw, simobs) ==
    prior_sites(draw)
        \o <<[type |-> "call", name |-> "get_simobservable", value |-> simobs]>>
        \o observe_sites(simobs, obs)

inference(draw) == inference_sites(draw, get_simobservable(prior_params(draw)))

-----------------------------------------------------------------------------
(* Postprocess: sample_observations and filter_samples.                    *)

Min(a, b) == IF a < b THEN a ELSE b

RECURSIVE MinLen(_, _)
MinLen(rows, k) ==
    IF k = Len(rows) THEN Len(rows[k]) ELSE Min(Len(rows[k]), MinLen(rows, k + 1))

\* list(zip(*rows))
zipstar(rows) ==
    IF rows = <<>> THEN <<>>
    ELSE Tab([k \in 1..MinLen(rows, 1) |-> Tab([i \in 1..Len(rows) |-> rows[i][k]])])

\* np.asarray of a list of equally long tuples: the nested list itself; its shape
asarray(rows) == rows

shape(a) == IF a = <<>> THEN <<0>> ELSE <<Len(a), Len(a[1])>>

\* simobs after the loop over range(nsamples)
simobs_list(s, nsamples) ==
    Tab([i \in 1..nsamples |->
        get_simobservable(
            [name \in {paramnames[k] : k \in 1..Len(paramnames)} |-> s[name][i]])])

sample_observations(s) ==
    Returned(asarray(zipstar(simobs_list(s, Len(s[paramnames[1]])))))

\* a filter function lambda s: s[param] < lt, as the record [param, lt]
filter_fcn_apply(f, s) ==
    IF f.param \notin DOMAIN s THEN Raised("KeyError")
    ELSE Returned(Tab([i \in 1..Len(s[f.param]) |-> Lt(s[f.param][i], f.lt)]))

\* idx = filter_fcn(samples): the mask so far is dropped
mask_overwritten(idx, mask) == mask

\* idx * mask
mask_and(idx, mask) == Tab([i \in 1..Len(idx) |-> idx[i] /\ mask[i]])

RECURSIVE filter_loop_skipping(_, _, _, _, _)
\* a name that is not in filters_dict is passed over
filter_loop_skipping(idx, s, filters_dict, filters_keys, k) ==
    IF k > Len(filters_keys) THEN Returned(idx)
    ELSE IF filters_keys[k] \notin DOMAIN filters_dict
            \/ filters_dict[filters_keys[k]].param \notin DOMAIN s
         THEN filter_loop_skipping(idx, s, filters_dict, filters_keys, k + 1)
    ELSE filter_loop_skipping(
             mask_and(idx, filter_fcn_apply(filters_dict[filters_keys[k]], s).value),
             s, filters_dict, filters_keys, k + 1)

RECURSIVE filter_loop(_, _, _, _, _)
RECURSIVE filter_step(_, _, _, _, _, _)
\* for key in filters_keys: idx = idx * filters_dict[key](samples)
filter_loop(idx, s, filters_dict, filters_keys, k) ==
    IF k > Len(filters_keys) THEN Returned(idx)
    ELSE IF filters_keys[k] \notin DOMAIN filters_dict THEN Raised("KeyError")
    ELSE filter_step(idx, s, filters_dict, filters_keys, k,
                     filter_fcn_apply(filters_dict[filters_keys[k]], s))

filter_step(idx, s, filters_dict, filters_keys, k, m) ==
    IF m.exc # "" THEN m
    ELSE filter_loop(mask_and(idx, m.value), s, filters_dict, filters_keys, k + 1)

RECURSIVE mask_select(_, _, _)
\* x[idx] for a boolean mask idx
mask_select(x, idx, i) ==
    IF i > Len(x) THEN <<>>
    ELSE (IF idx[i] THEN <<x[i]>> ELSE <<>>) \o mask_select(x, idx, i + 1)

\* idx = samples[self.paramnames[0]] > -float("inf")
first_mask(x) == Tab([i \in 1..Len(x) |-> Lt(Neg(Inf), x[i])])

\* new_samples, idx being the outcome of the loop over filters_keys
new_samples_of(s, idx) ==
    IF idx.exc # "" THEN idx
    ELSE Returned([name \in {paramnames[k] : k \in 1..Len(paramnames)} |->
                      mask_select(s[name], idx.value, 1)])

filter_samples(s, filters_dict, filters_keys) ==
    new_samples_of(s, filter_loop(first_mask(s[paramnames[1]]), s,
                                  filters_dict, filters_keys, 1))

-----------------------------------------------------------------------------
(* Inputs.                                                                 *)

MaxDraws == 2
MaxKeys == 2

\* parameter vectors inside the priors whose rate matrix has its spectrum in EigGrid
ModelPoints ==
    {[t_incub |-> <<4, 1>>, inf_rate |-> <<5, 8>>, surv_rate |-> <<1, 3>>,
      t_dec |-> <<2, 1>>, t_rec |-> <<8, 1>>],
     [t_incub |-> <<4, 3>>, inf_rate |-> <<3, 16>>, surv_rate |-> <<1, 3>>,
      t_dec |-> <<2, 1>>, t_rec |-> <<4, 1>>],
     [t_incub |-> <<8, 1>>, inf_rate |-> <<1, 2>>, surv_rate |-> <<1, 2>>,
      t_dec |-> <<8, 1>>, t_rec |-> <<8, 1>>]}

Model2Points ==
    {[t_incub |-> <<8, 1>>, inf_rate_unconf |-> <<5, 8>>, inf_rate_conf |-> <<3, 4>>,
      surv_rate |-> <<1, 3>>, t_conf |-> <<8, 1>>, t_dec_conf |-> <<8, 1>>,
      t_rec_conf |-> <<8, 1>>, t_dec_unconf |-> <<4, 1>>, t_rec_unconf |-> <<4, 1>>],
     [t_incub |-> <<8, 1>>, inf_rate_unconf |-> <<3, 4>>, inf_rate_conf |-> <<3, 8>>,
      surv_rate |-> <<2, 3>>, t_conf |-> <<3, 1>>, t_dec_conf |-> <<8, 1>>,
      t_rec_conf |-> <<8, 1>>, t_dec_unconf |-> <<6, 1>>, t_rec_unconf |-> <<6, 1>>],
     [t_incub |-> <<1, 1>>, inf_rate_unconf |-> <<1, 16>>, inf_rate_conf |-> <<1, 8>>,
      surv_rate |-> <<1, 2>>, t_conf |-> <<8, 3>>, t_dec_conf |-> <<4, 1>>,
      t_rec_conf |-> <<4, 1>>, t_dec_unconf |-> <<4, 1>>, t_rec_unconf |-> <<4, 1>>]}

Points == IF variant = "Model" THEN ModelPoints ELSE Model2Points

Names == {paramnames[k] : k \in 1..Len(paramnames)}

PriorOf(name) == prior[CHOOSE k \in 1..Len(prior) : prior[k][1] = name][2]

InSupport(params) ==
    \A name \in Names :
        Le(PriorOf(name).low, params[name]) /\ Le(params[name], PriorOf(name).high)

\* every corner of the prior box, and the corners with surv_rate = 3/2 outside of it
JacPoints ==
    {[name \in Names |-> IF name \in S THEN PriorOf(name).high ELSE PriorOf(name).low] :
        S \in SUBSET Names}
    \cup {[name \in Names |->
              IF name = "surv_rate" THEN <<3, 2>>
              ELSE IF name \in S THEN PriorOf(name).high ELSE PriorOf(name).low] :
            S \in SUBSET (Names \ {"surv_rate"})}
    \cup Points

\* posterior.get_samples(): n draws, stored per parameter name
SampleSet(draws) == [name \in Names |-> Tab([i \in 1..Len(draws) |-> draws[i][name]])]

SampleSets == {SampleSet(draws) : draws \in UNION {[1..n -> Points] : n \in 1..MaxDraws}}

\* filters_dict of __main__, and one with a second filter
MainFilters == [low_infection_rate |-> [param |-> "inf_rate", lt |-> <<1, 2>>]]

TwoFilters ==
    [low_infection_rate |-> [param |-> "inf_rate", lt |-> <<1, 2>>],
     low_survival |-> [param |-> "surv_rate", lt |-> <<1, 2>>]]

FilterDicts == {MainFilters, TwoFilters}

KeyLists ==
    UNION {[1..n -> {"low_infection_rate", "low_survival", "unknown"}] : n \in 0..MaxKeys}

\* what get_observable estimates from the data file: (mean, std) per observable
ObsInputs ==
    {<<<<<<1, 8>>, <<1, 100>>>>, <<<<1, 2>>, <<1, 10>>>>, <<<<1, 20>>, <<1, 50>>>>>>}

NoCall == [name |-> "none"]

-----------------------------------------------------------------------------
(* The state machine: an object is constructed, then the driver calls its  *)
(* methods one at a time.                                                  *)

Init ==
    /\ variant \in {"Model", "Model2"}
    /\ prior = (IF variant = "Model" THEN ModelPrior ELSE Model2Prior)
    /\ vecnames = (IF variant = "Model" THEN ModelVecnames ELSE Model2Vecnames)
    /\ obsnames = Obsnames
    /\ paramnames = keys(prior)
    /\ nparams = Len(paramnames)
    /\ nobs = Len(obsnames)
    /\ obs \in ObsInputs
    /\ eigsign \in {1, -1}
    /\ eigtie \in {"fwd", "rev"}
    /\ samples = <<>>
    /\ pc = "idle"
    /\ call = NoCall
    /\ ret = Returned(<<>>)
    /\ log = <<>>

\* __main__: the sampler's run and the pickle round trip of its samples
main_load ==
    /\ pc = "idle"
    /\ samples = <<>>
    /\ samples' \in SampleSets
    /\ UNCHANGED <<attrs, eigsign, eigtie, pc, call, ret, log>>

Call_construct_jac ==
    /\ pc = "idle"
    /\ \E params \in JacPoints :
          /\ call' = [name |-> "construct_jac", params |-> params]
          /\ ret' = Returned(construct_jac(params))
    /\ pc' = "returned"
    /\ UNCHANGED <<attrs, eigsign, eigtie, samples, log>>

Call_get_simobservable ==
    /\ pc = "idle"
    /\ \E params \in Points :
          /\ call' = [name |-> "get_simobservable", params |-> params]
          /\ ret' = Returned(get_simobservable(params))
    /\ pc' = "returned"
    /\ UNCHANGED <<attrs, eigsign, eigtie, samples, log>>

\* inference that keeps what it simulated in self.obs
Call_inference_storing ==
    /\ pc = "idle"
    /\ \E draw \in Points :
          /\ call' = [name |-> "inference", draw |-> draw]
          /\ log' = inference(draw)
          /\ obs' = [i \in 1..nobs |-> <<get_simobservable(draw)[i], obs[i][2]>>]
    /\ ret' = Returned(<<>>)
    /\ pc' = "returned"
    /\ UNCHANGED <<variant, prior, vecnames, obsnames, paramnames, nparams, nobs,
                   eigsign, eigtie, samples>>

Call_inference ==
    /\ pc = "idle"
    /\ \E draw \in Points :
          /\ call' = [name |-> "inference", draw |-> draw]
          /\ log' = inference(draw)
    /\ ret' = Returned(<<>>)
    /\ pc' = "returned"
    /\ UNCHANGED <<attrs, eigsign, eigtie, samples>>

Call_sample_observations ==
    /\ pc = "idle"
    /\ samples # <<>>
    /\ call' = [name |-> "sample_observations", samples |-> samples]
    /\ ret' = sample_observations(samples)
    /\ pc' = "returned"
    /\ UNCHANGED <<attrs, eigsign, eigtie, samples, log>>

Call_filter_samples ==
    /\ pc = "idle"
    /\ samples # <<>>
    /\ \E filters_dict \in FilterDicts, filters_keys \in KeyLists :
          /\ call' = [name |-> "filter_samples", samples |-> samples,
                      filters_dict |-> filters_dict, filters_keys |-> filters_keys]
          /\ ret' = filter_samples(samples, filters_dict, filters_keys)
    /\ pc' = "returned"
    /\ UNCHANGED <<attrs, eigsign, eigtie, samples, log>>

\* the caller drops the result
Return ==
    /\ pc = "returned"
    /\ pc' = "idle"
    /\ call' = NoCall
    /\ ret' = Returned(<<>>)
    /\ log' = <<>>
    /\ UNCHANGED <<attrs, eigsign, eigtie, samples>>

\* __main__: samples = model.filter_samples(samples, filters_dict, filter_keys)
main_rebind ==
    /\ pc = "returned"
    /\ call.name = "filter_samples"
    /\ ret.exc = ""
    /\ samples' = ret.value
    /\ pc' = "idle"
    /\ call' = NoCall
    /\ ret' = Returned(<<>>)
    /\ log' = <<>>
    /\ UNCHANGED <<attrs, eigsign, eigtie>>

Next ==
    \/ main_load
    \/ Call_construct_jac
    \/ Call_get_simobservable
    \/ Call_inference
    \/ Call_sample_observations
    \/ Call_filter_samples
    \/ Return
    \/ main_rebind

Spec == Init /\ [][Next]_vars

-----------------------------------------------------------------------------
(* Properties of construct_jac.                                            *)

JacReturned == pc = "returned" /\ call.name = "construct_jac"

NCompartments == Cardinality(DOMAIN vecnames)

\* C1: construct_jac returns a square matrix that has as many rows and as
\* many columns as the variant has compartments (5 for Model, 7 for Model2).
C1_SizeIsCompartmentCount ==
    JacReturned =>
        /\ Dim(ret.value) = NCompartments
        /\ \A i \in DOMAIN ret.value : Dim(ret.value[i]) = NCompartments

RECURSIVE ColSum(_, _, _)
\* the sum of the entries 0..i of column j
ColSum(K, j, i) == IF i < 0 THEN Zero ELSE Add(K[i][j], ColSum(K, j, i - 1))

ColumnSum(K, j) == ColSum(K, j, Dim(K) - 1)

\* C2 as stated: for parameters inside the prior bounds every column of the
\* matrix construct_jac returns sums to a value <= 0.
C2_ColumnSumsNonPositive ==
    (JacReturned /\ InSupport(call.params)) =>
        \A j \in DOMAIN ret.value : Le(ColumnSum(ret.value, j), Zero)

\* what column j of the rate matrix sums to: the rate at which compartment j
\* makes new exposed cases, less the outflow of j that no compartment receives
ColumnBalance(params, j) ==
    IF variant = "Model"
    THEN IF j \in {vecnames["infectious_dec"], vecnames["infectious_rec"]}
         THEN params["inf_rate"] ELSE Zero
    ELSE IF j = vecnames["infectious_dec_unconf"]
         THEN Sub(params["inf_rate_unconf"], Div(One, params["t_dec_unconf"]))
    ELSE IF j = vecnames["infectious_rec_unconf"]
         THEN Sub(params["inf_rate_unconf"], Div(One, params["t_rec_unconf"]))
    ELSE IF j \in {vecnames["infectious_dec_conf"], vecnames["infectious_rec_conf"]}
         THEN params["inf_rate_conf"]
    ELSE Zero

\* C2, amended: for parameters inside the prior bounds the column of the
\* exposed compartment and the columns of the compartments nothing leaves sum
\* to 0; a column of an infectious compartment sums to its infection rate
\* (Model, and the confirmed ones of Model2), which is > 0, or to the
\* infection rate less the rate of the unconfirmed outcome (the unconfirmed
\* ones of Model2).
C2_ColumnSumsAreBalance ==
    (JacReturned /\ InSupport(call.params)) =>
        \A j \in DOMAIN ret.value :
            ColumnSum(ret.value, j) = ColumnBalance(call.params, j)

C2_Witness ==
    /\ JacReturned /\ InSupport(call.params)
    /\ \E j \in DOMAIN ret.value : Lt(Zero, ColumnSum(ret.value, j))
    /\ \E j \in DOMAIN ret.value : Lt(ColumnSum(ret.value, j), Zero)

\* C9 as stated: for parameters inside the prior bounds every off-diagonal
\* entry of the matrix construct_jac returns is >= 0 and every diagonal entry
\* is < 0.
C9_DiagonalNegative ==
    (JacReturned /\ InSupport(call.params)) =>
        \A i \in DOMAIN ret.value : \A j \in DOMAIN ret.value :
            IF i = j THEN Lt(ret.value[i][j], Zero) ELSE Le(Zero, ret.value[i][j])

\* the compartments something leaves: exposed and the infectious ones
Transient ==
    {vecnames[c] : c \in {c \in DOMAIN vecnames :
                             c \notin {"dec", "rec", "dec_conf", "rec_conf"}}}

\* C9, amended: for parameters inside the prior bounds every off-diagonal
\* entry is >= 0, the diagonal entry of the exposed and of every infectious
\* compartment is < 0, and every other diagonal entry is 0.
C9_SignPattern ==
    (JacReturned /\ InSupport(call.params)) =>
        \A i \in DOMAIN ret.value : \A j \in DOMAIN ret.value :
            IF i # j THEN Le(Zero, ret.value[i][j])
            ELSE IF i \in Transient THEN Lt(ret.value[i][j], Zero)
            ELSE ret.value[i][j] = Zero

C9_Witness ==
    /\ JacReturned /\ InSupport(call.params)
    /\ \E i \in DOMAIN ret.value : ret.value[i][i] = Zero
    /\ \E i \in DOMAIN ret.value : Lt(ret.value[i][i], Zero)
    /\ \E i \in DOMAIN ret.value : \E j \in DOMAIN ret.value :
           i # j /\ Lt(Zero, ret.value[i][j])

-----------------------------------------------------------------------------
(* Properties of get_simobservable.                                        *)

SimReturned == pc = "returned" /\ call.name = "get_simobservable"

\* lam is the largest eigenvalue of M: M - lam I is singular, no eigenvalue
\* of M is above lam, and the eigenvalues found account for every dimension
IsLargestEigenvalue(M, lam) ==
    /\ lam \in Spectrum(M)
    /\ \A mu \in Spectrum(M) : Le(mu, lam)
    /\ EigComplete(M)

\* C3: the growth rate get_simobservable returns is the largest eigenvalue
\* of the rate matrix construct_jac builds from the same parameters.
C3_GrowthRateIsLargestEigenvalue ==
    SimReturned => IsLargestEigenvalue(construct_jac(call.params), ret.value[1])

\* a growing epidemic and a decaying one, both with several eigenvalues
C3_Witness ==
    /\ SimReturned
    /\ Cardinality(Spectrum(construct_jac(call.params))) >= 3
    /\ Lt(Zero, ret.value[1])
    /\ variant = "Model"

\* the index of the recovered compartment: rec in Model, rec_conf in Model2
Recovered == vecnames[IF variant = "Model" THEN "rec" ELSE "rec_conf"]

\* column -1 of eigvecs times s
Rescaled(eigvecs, s) ==
    Tab([i \in DOMAIN eigvecs |-> Mul(eigvecs[i][Last(eigvecs[i])], s)])

RescaledByRecovered(eigvecs) ==
    /\ Recovered = Last(eigvecs)
    /\ max_eigvecs_of(eigvecs)
           = Rescaled(eigvecs, Sign(eigvecs[Recovered][Last(eigvecs[Recovered])]))
    /\ Le(Zero, max_eigvecs_of(eigvecs)[Recovered])

\* C10: get_simobservable rescales the dominant eigenvector by the sign of
\* its entry at the recovered compartment, which is the last coordinate of
\* the vector, so the recovered entry of the rescaled vector is >= 0.
C10_RescaledBySignOfRecovered ==
    SimReturned => RescaledByRecovered(eig(construct_jac(call.params)).eigvecs)

\* the same for Model alone, where the recovered compartment is the last
\* coordinate
C10_ModelRescaledBySignOfRecovered ==
    (SimReturned /\ variant = "Model") =>
        RescaledByRecovered(eig(construct_jac(call.params)).eigvecs)

\* in Model2 the two ratios of a growing epidemic are nan
C10_Model2RatiosNaN ==
    (SimReturned /\ variant = "Model2") =>
        IsNaN(ret.value[2]) /\ IsNaN(ret.value[3])

-----------------------------------------------------------------------------
(* Properties of inference.                                                *)

InferenceReturned == pc = "returned" /\ call.name = "inference"

PriorDrawsFirst(sites, draw) ==
    /\ Len(sites) = Len(prior) + 1 + Len(Obsnames)
    /\ \A k \in 1..Len(prior) :
           sites[k] = Site(prior[k][1], prior[k][2], draw[prior[k][1]], FALSE)
    /\ \A name \in Names :
           Cardinality({k \in 1..Len(sites) :
                           sites[k].type = "sample" /\ sites[k].name = name}) = 1

SimulatedOnce(sites, draw) ==
    /\ sites[Len(prior) + 1]
           = [type |-> "call", name |-> "get_simobservable",
              value |-> get_simobservable(draw)]
    /\ Cardinality({k \in 1..Len(sites) : sites[k].type = "call"}) = 1

ObservedInOrder(sites, simobs) ==
    /\ \A i \in 1..Len(Obsnames) :
           sites[Len(prior) + 1 + i]
               = Site(Obsnames[i], Normal(simobs[i], obs[i][2]), obs[i][1], TRUE)
    /\ Cardinality({k \in 1..Len(sites) :
                       sites[k].type = "sample" /\ sites[k].is_observed}) = Len(Obsnames)
    /\ \A j \in 1..Len(sites) : \A k \in 1..Len(sites) :
           (sites[j].type = "sample" /\ sites[j].is_observed
               /\ sites[k].type = "sample" /\ ~sites[k].is_observed) => k < j

\* C6: one inference call draws every parameter once from its prior, then
\* simulates the observables once, then issues three observe statements in
\* the order gradient, dec_by_rec, dec_by_infection, the i-th a Normal with
\* mean the i-th simulated observable and std the i-th empirical std,
\* observed at the i-th empirical mean; no observe precedes a prior draw.
C6_InferenceOrder ==
    InferenceReturned =>
        /\ PriorDrawsFirst(log, call.draw)
        /\ SimulatedOnce(log, call.draw)
        /\ ObservedInOrder(log, log[Len(prior) + 1].value)

C6_Witness ==
    /\ InferenceReturned
    /\ Len(log) = Len(prior) + 4
    /\ log[Len(log)].is_observed
    /\ log[Len(log)].fn.scale = obs[3][2]
    /\ obs[3][2] # obs[3][1]

\* what each call returns, computed from its arguments and the attributes alone
ResultOf(c) ==
    IF c.name = "construct_jac" THEN Returned(construct_jac(c.params))
    ELSE IF c.name = "get_simobservable" THEN Returned(get_simobservable(c.params))
    ELSE IF c.name = "inference" THEN Returned(<<>>)
    ELSE IF c.name = "sample_observations" THEN sample_observations(c.samples)
    ELSE filter_samples(c.samples, c.filters_dict, c.filters_keys)

\* C8: no call changes self.obs or another attribute of the model (prior,
\* vecnames, obsnames, paramnames, nparams, nobs), and whatever ran before,
\* a call's result is the one its arguments and these attributes give.
C8_AttributesNeverChange ==
    /\ [][attrs' = attrs]_vars
    /\ [](pc = "returned" => ret = ResultOf(call))

\* a call made after others: the samples were loaded, filtered to nothing
\* and rebound
C8_Witness ==
    /\ InferenceReturned
    /\ samples # <<>>
    /\ Len(samples[paramnames[1]]) = 0
    /\ obs \in ObsInputs

-----------------------------------------------------------------------------
(* Properties of filter_samples and sample_observations.                   *)

FilterReturned == pc = "returned" /\ call.name = "filter_samples"

NDraws(s) == Len(s[paramnames[1]])

KnownKeys(c) ==
    \A k \in 1..Len(c.filters_keys) : c.filters_keys[k] \in DOMAIN c.filters_dict

\* every listed predicate reads a parameter the sample set holds
PredicatesDefined(c) ==
    \A k \in 1..Len(c.filters_keys) :
        c.filters_dict[c.filters_keys[k]].param \in DOMAIN c.samples

\* the positions of the draws for which every listed predicate holds
Kept(c) ==
    {i \in 1..NDraws(c.samples) :
        \A k \in 1..Len(c.filters_keys) :
            Lt(c.samples[c.filters_dict[c.filters_keys[k]].param][i],
               c.filters_dict[c.filters_keys[k]].lt)}

\* x at the positions pos, pos being ascending
Subsequence(x, pos) == [j \in 1..Len(pos) |-> x[pos[j]]]

C7_UnknownNameRaises ==
    (FilterReturned /\ ~KnownKeys(call)) =>
        /\ ret = Raised("KeyError")
        /\ samples = call.samples

\* the unknown name comes second, after a predicate that was applied
C7_Witness ==
    /\ FilterReturned
    /\ Len(call.filters_keys) = 2
    /\ call.filters_keys[1] \in DOMAIN call.filters_dict
    /\ call.filters_dict[call.filters_keys[1]].param \in DOMAIN call.samples
    /\ call.filters_keys[2] \notin DOMAIN call.filters_dict
    /\ ret.exc = "KeyError"

ReplayReturned == pc = "returned" /\ call.name = "sample_observations"

\* draw i of every parameter, as a parameter vector
DrawOf(s, i) == [name \in Names |-> s[name][i]]

\* C5: for a sample set of N >= 0 draws sample_observations returns an array
\* of shape 3 x N whose column i is the triple get_simobservable returns for
\* draw i.
C5_ReplayShape ==
    ReplayReturned =>
        /\ ret.exc = ""
        /\ shape(ret.value) = <<Len(Obsnames), NDraws(call.samples)>>
        /\ \A i \in 1..NDraws(call.samples) : \A k \in 1..Len(Obsnames) :
               ret.value[k][i] = get_simobservable(DrawOf(call.samples, i))[k]

\* the same for the sample sets that hold a draw
C5_ReplayShapeNonEmpty ==
    (ReplayReturned /\ NDraws(call.samples) >= 1) =>
        /\ ret.exc = ""
        /\ shape(ret.value) = <<Len(Obsnames), NDraws(call.samples)>>
        /\ \A i \in 1..NDraws(call.samples) : \A k \in 1..Len(Obsnames) :
               ret.value[k][i] = get_simobservable(DrawOf(call.samples, i))[k]

====
